---------------------------- MODULE Spec2Model ----------------------------
(***************************************************************************)
(* A model of UELogParser's backend (src-tauri/src): the file indexer, the *)
(* cached line reader, the search engine and the command layer that holds  *)
(* the session state.                                                      *)
(*                                                                         *)
(* A file is a sequence of text units.  A unit is a string standing for    *)
(* the bytes it spells ("\n" is the newline byte, "Error" five bytes, and  *)
(* E9 one two-byte UTF-8 character), so byte offsets are sums of widths.   *)
(***************************************************************************)
EXTENDS Integers, Sequences, FiniteSets, TLC

VARIABLES
    fs,             \* the files on disk: path -> content (never written)
    current_file,   \* AppState.current_file   : Option<PathBuf>
    current_index,  \* AppState.current_index  : Option<FileIndex>
    line_reader,    \* AppState.line_reader    : Option<LineReader>
    now,            \* the monotonic clock read by Instant::now()
    poisoned,       \* the Mutex<AppState> is poisoned: a command panicked
                    \* while it held the lock
    ret,            \* what the last command or call returned
    mutex,          \* the task that holds the lock of the Mutex<AppState>
    tasks           \* the commands in progress, where they are issued
                    \* concurrently: task -> where it is in its command

vars == <<fs, current_file, current_index, line_reader, now, poisoned, ret,
          mutex, tasks>>

-----------------------------------------------------------------------------
(* Option<T> *)
None == [some |-> FALSE]
Some(x) == [some |-> TRUE, val |-> x]

Min(a, b) == IF a <= b THEN a ELSE b
Max(a, b) == IF a >= b THEN a ELSE b

-----------------------------------------------------------------------------
(* Text units and bytes *)
NL == "\n"
CR == "\r"
\* one character that UTF-8 encodes in two bytes
E9 == "U+00E9"

\* one byte that is not valid UTF-8
XFF == "0xFF"

\* the number of bytes a unit occupies in the file
Width(t) == IF t = E9 THEN 2 ELSE IF t = XFF THEN 1 ELSE Len(t)

\* the number of characters a unit spells
Chars(t) == IF t \in {E9, XFF} THEN 1 ELSE Len(t)

RECURSIVE ByteLen(_)
ByteLen(s) == IF s = <<>> THEN 0 ELSE Width(Head(s)) + ByteLen(Tail(s))

RECURSIVE CharLen(_)
CharLen(s) == IF s = <<>> THEN 0 ELSE Chars(Head(s)) + CharLen(Tail(s))

\* the byte offset of the k-th unit of data (k = Len(data) + 1: the file size)
ByteOffset(data, k) == ByteLen(SubSeq(data, 1, k - 1))

RECURSIVE Concat(_)
Concat(ss) == IF ss = <<>> THEN <<>> ELSE Head(ss) \o Concat(Tail(ss))


RECURSIVE Spell(_)
\* the string a sequence of units spells
Spell(s) == IF s = <<>> THEN "" ELSE Head(s) \o Spell(Tail(s))

\* character classes of the regex crate (Unicode-aware \w, \d, \s)
DigitUnits == {"0", "7", "42"}
WordUnits ==
    DigitUnits \cup {"a", "b", "A", "LogInit", "LogCore", "Error", "error",
                     "Warning", "Display", "Verbose", "VeryVerbose", "Foo", E9}
SpaceUnits == {" ", CR}
IsWord(s) == s # <<>> /\ \A k \in 1..Len(s) : s[k] \in WordUnits
IsDigits(s) == s # <<>> /\ \A k \in 1..Len(s) : s[k] \in DigitUnits
IsSpaces(s) == \A k \in 1..Len(s) : s[k] \in SpaceUnits

-----------------------------------------------------------------------------
(* parser/types.rs *)

\* FileIndex::INDEX_INTERVAL, the lines per checkpoint.  The program's value
\* is 1000; the model takes a small one, so that files of a few lines have
\* several checkpoints.  The scale keeps the order of the program's numbers:
\* PREVIEW_LINES (100) < INDEX_INTERVAL (1000) < PAGE_WINDOW (10000).
INDEX_INTERVAL == 2

LevelNames == {"Error", "Warning", "Display", "Verbose", "VeryVerbose"}

\* LogLevel::from_str after to_lowercase, on a spelled word
LowerNames ==
    [n \in {"error", "warning", "display", "verbose", "veryverbose"} |->
        CASE n = "error" -> "Error"
          [] n = "warning" -> "Warning"
          [] n = "display" -> "Display"
          [] n = "verbose" -> "Verbose"
          [] n = "veryverbose" -> "VeryVerbose"]

\* str::to_lowercase on the units of the vocabulary
ToLowerUnit(t) ==
    CASE t = "A" -> "a"
      [] t = "LogInit" -> "loginit"
      [] t = "LogCore" -> "logcore"
      [] t = "Error" -> "error"
      [] t = "Warning" -> "warning"
      [] t = "Display" -> "display"
      [] t = "Verbose" -> "verbose"
      [] t = "VeryVerbose" -> "veryverbose"
      [] t = "Foo" -> "foo"
      [] OTHER -> t

RECURSIVE to_lowercase(_)
to_lowercase(s) ==
    IF s = <<>> THEN "" ELSE ToLowerUnit(Head(s)) \o to_lowercase(Tail(s))

LogLevel_from_str(s) ==
    LET l == to_lowercase(s)
    IN  IF l \in DOMAIN LowerNames THEN LowerNames[l] ELSE "Unknown"

display_name(level) == level

FileIndex_new(file_path, file_size) ==
    [file_path |-> file_path, total_lines |-> 0, file_size |-> file_size,
     line_offsets |-> <<>>, index_interval |-> INDEX_INTERVAL,
     categories |-> [k \in {} |-> 0], level_counts |-> [k \in {} |-> 0]]

-----------------------------------------------------------------------------
(* parser/patterns.rs and the extractors of parser/log_parser.rs *)

\* EXTRACT_LEVEL  :(Error|Warning|Display|Verbose|VeryVerbose):
\* the leftmost colon that is followed at once by a level name and a colon
LevelMatches(line) ==
    {m \in (1..Len(line)) \X (1..Len(line)) :
        /\ m[1] < m[2]
        /\ line[m[1]] = ":"
        /\ line[m[2]] = ":"
        /\ Spell(SubSeq(line, m[1] + 1, m[2] - 1)) \in LevelNames}

extract_level(line) ==
    LET ms == LevelMatches(line)
    IN  IF ms = {} THEN None
        ELSE LET m == CHOOSE m \in ms : \A o \in ms : m[1] <= o[1]
             IN  Some(LogLevel_from_str(SubSeq(line, m[1] + 1, m[2] - 1)))

\* the end of \[\s*\d+\] matched from unit k on, or 0
FrameEnd(line, k) ==
    IF k > Len(line) \/ line[k] # "[" THEN 0
    ELSE LET ends == {e \in (k + 1)..Len(line) :
                        /\ line[e] = "]"
                        /\ \E d \in (k + 1)..(e - 1) :
                              /\ IsSpaces(SubSeq(line, k + 1, d - 1))
                              /\ IsDigits(SubSeq(line, d, e - 1))}
         IN  IF ends = {} THEN 0 ELSE CHOOSE e \in ends : TRUE

\* the colon ending a \w+: run that starts at unit k, or 0
WordColon(line, k) ==
    LET cs == {c \in (k + 1)..Len(line) :
                 line[c] = ":" /\ IsWord(SubSeq(line, k, c - 1))}
    IN  IF cs = {} THEN 0 ELSE CHOOSE c \in cs : TRUE

\* EXTRACT_CATEGORY  ^\[.*?\]\[\s*\d+\](\w+):|^(\w+):
\* first alternative: the closing brackets (lazily, the first) after which
\* a frame and a category follow
BracketCloses(line) ==
    {b \in 2..Len(line) :
        /\ line[1] = "["
        /\ line[b] = "]"
        /\ FrameEnd(line, b + 1) # 0
        /\ WordColon(line, FrameEnd(line, b + 1) + 1) # 0}

extract_category(line) ==
    LET bs == BracketCloses(line)
    IN  IF bs # {}
        THEN LET b == CHOOSE b \in bs : \A o \in bs : b <= o
                 f == FrameEnd(line, b + 1)
             IN  Some(Spell(SubSeq(line, f + 1, WordColon(line, f + 1) - 1)))
        ELSE IF WordColon(line, 1) # 0
        THEN Some(Spell(SubSeq(line, 1, WordColon(line, 1) - 1)))
        ELSE None

-----------------------------------------------------------------------------
(* parser/log_parser.rs: parse_line *)

\* a unit spelling a date-time of the form \d{4}\.\d{2}\.\d{2}-\d{2}\.\d{2}\.\d{2}:\d{3}
TS == "2026.02.14-03.33.56:070"
\* the literal "Log file open," and a unit spelling \d{2}/\d{2}/\d{2}\s+\d{2}:\d{2}:\d{2}
HDR == "Log file open,"
DT == "02/14/26 11:33:35"

RECURSIVE trim_end(_)
\* str::trim_end
trim_end(s) ==
    IF s # <<>> /\ s[Len(s)] \in SpaceUnits
    THEN trim_end(SubSeq(s, 1, Len(s) - 1)) ELSE s

RECURSIVE SkipSpaces(_, _)
\* the unit after a greedy \s* that starts at unit k
SkipSpaces(line, k) ==
    IF k <= Len(line) /\ line[k] \in SpaceUnits
    THEN SkipSpaces(line, k + 1) ELSE k

DigitValue(t) == CASE t = "0" -> 0 [] t = "7" -> 7 [] t = "42" -> 42

RECURSIVE ParseU64(_)
\* str::parse::<u64> of a run of digit units (no run of the model overflows)
ParseU64(ds) ==
    IF ds = <<>> THEN 0
    ELSE LET t == ds[Len(ds)]
             scale == IF Len(t) = 2 THEN 100 ELSE 10
         IN  ParseU64(SubSeq(ds, 1, Len(ds) - 1)) * scale + DigitValue(t)

\* a continuation test that knows nothing of '>'
is_continuation_space_only(line) ==
    \/ (line # <<>> /\ line[1] = " ")
    \/ line = <<>>

is_continuation(line) ==
    \/ (line # <<>> /\ line[1] = " ")
    \/ (line # <<>> /\ line[1] = ">")
    \/ line = <<>>

\* (\w+):\s*(\w+):\s*(.*)$ matched from unit k on: the captures, or None
CategoryLevelMessage(line, k) ==
    LET c1 == WordColon(line, k)
        l == SkipSpaces(line, c1 + 1)
        c2 == WordColon(line, l)
        m == SkipSpaces(line, c2 + 1)
    IN  IF c1 = 0 \/ c2 = 0 THEN None
        ELSE Some([category |-> SubSeq(line, k, c1 - 1),
                   level |-> SubSeq(line, l, c2 - 1),
                   message |-> SubSeq(line, m, Len(line))])

\* PATTERN_STANDARD: the captures, or None
MatchStandard(line) ==
    IF /\ Len(line) >= 4
       /\ line[1] = "[" /\ line[2] = TS /\ line[3] = "]"
       /\ FrameEnd(line, 4) # 0
       /\ CategoryLevelMessage(line, FrameEnd(line, 4) + 1).some
    THEN LET f == FrameEnd(line, 4)
             d == SkipSpaces(line, 5)
         IN  Some([timestamp |-> <<line[2]>>,
                   frame |-> SubSeq(line, d, f - 1),
                   rest |-> CategoryLevelMessage(line, f + 1).val])
    ELSE None

\* PATTERN_SIMPLE: the captures, or None
MatchSimple(line) == CategoryLevelMessage(line, 1)

\* PATTERN_HEADER.is_match
MatchHeader(line) ==
    /\ line # <<>>
    /\ line[1] = HDR
    /\ SkipSpaces(line, 2) <= Len(line)
    /\ line[SkipSpaces(line, 2)] = DT

RECURSIVE RemoveHeaderPrefix(_)
\* str::replace("Log file open, ", ""): every occurrence, left to right
RemoveHeaderPrefix(line) ==
    IF line = <<>> THEN <<>>
    ELSE IF Len(line) >= 2 /\ line[1] = HDR /\ line[2] = " "
    THEN RemoveHeaderPrefix(SubSeq(line, 3, Len(line)))
    ELSE <<line[1]>> \o RemoveHeaderPrefix(Tail(line))

\* LogEntry::raw
LogEntry_raw(line_number, content) ==
    [line_number |-> line_number, raw |-> content, timestamp |-> None,
     frame |-> None, category |-> None, level |-> "Unknown",
     message |-> None, is_continuation |-> FALSE]

parse_line(line_number, content) ==
    LET trimmed == trim_end(content)
        std == MatchStandard(trimmed)
        simple == MatchSimple(trimmed)
    IN  IF is_continuation(trimmed)
        THEN [line_number |-> line_number, raw |-> trimmed,
              timestamp |-> None, frame |-> None, category |-> None,
              level |-> "Unknown", message |-> Some(trimmed),
              is_continuation |-> TRUE]
        ELSE IF std.some
        THEN [line_number |-> line_number, raw |-> trimmed,
              timestamp |-> Some(std.val.timestamp),
              frame |-> Some(ParseU64(std.val.frame)),
              category |-> Some(Spell(std.val.rest.category)),
              level |-> LogLevel_from_str(std.val.rest.level),
              message |-> Some(std.val.rest.message),
              is_continuation |-> FALSE]
        ELSE IF simple.some
        THEN [line_number |-> line_number, raw |-> trimmed,
              timestamp |-> None, frame |-> None,
              category |-> Some(Spell(simple.val.category)),
              level |-> LogLevel_from_str(simple.val.level),
              message |-> Some(simple.val.message),
              is_continuation |-> FALSE]
        ELSE IF MatchHeader(trimmed)
        THEN [line_number |-> line_number, raw |-> trimmed,
              timestamp |-> Some(RemoveHeaderPrefix(trimmed)),
              frame |-> None, category |-> Some("LogFile"),
              level |-> "Display", message |-> Some(<<"Log file opened">>),
              is_continuation |-> FALSE]
        ELSE LogEntry_raw(line_number, trimmed)

-----------------------------------------------------------------------------
(* streaming/file_indexer.rs *)

\* HashMap<String, u64>
EmptyMap == [k \in {} |-> 0]

\* *map.entry(key).or_insert(0) += 1
Increment(map, key) ==
    [k \in DOMAIN map \cup {key} |->
        IF k = key
        THEN (IF key \in DOMAIN map THEN map[key] ELSE 0) + 1
        ELSE map[k]]

\* std::str::from_utf8 of a slice of the mapped file succeeds
IsUtf8(line) == \A k \in 1..Len(line) : line[k] # XFF

\* a scan that records the offset of the newline, not of the byte after it
OnNewline_at_newline(data, st, k, i) ==
    LET line_count == st.line_count + 1
        line == SubSeq(data, st.current_unit, k - 1)
        counted == st.current_offset < i /\ IsUtf8(line)
        category == extract_category(line)
        level == extract_level(line)
    IN  [line_count |-> line_count,
         categories |->
            IF counted /\ category.some
            THEN Increment(st.categories, category.val) ELSE st.categories,
         level_counts |->
            IF counted /\ level.some
            THEN Increment(st.level_counts, display_name(level.val))
            ELSE st.level_counts,
         line_offsets |->
            IF line_count % INDEX_INTERVAL = 0
            THEN Append(st.line_offsets, i) ELSE st.line_offsets,
         current_offset |-> i + 1,
         current_unit |-> k + 1]

\* what a newline byte found at byte i (unit k) does to the scan state
OnNewline(data, st, k, i) ==
    LET line_count == st.line_count + 1
        line == SubSeq(data, st.current_unit, k - 1)
        counted == st.current_offset < i /\ IsUtf8(line)
        category == extract_category(line)
        level == extract_level(line)
    IN  [line_count |-> line_count,
         categories |->
            IF counted /\ category.some
            THEN Increment(st.categories, category.val) ELSE st.categories,
         level_counts |->
            IF counted /\ level.some
            THEN Increment(st.level_counts, display_name(level.val))
            ELSE st.level_counts,
         line_offsets |->
            IF line_count % INDEX_INTERVAL = 0
            THEN Append(st.line_offsets, i + 1) ELSE st.line_offsets,
         current_offset |-> i + 1,
         current_unit |-> k + 1]

RECURSIVE ScanBytes(_, _, _, _)
\* the loop over data.iter().enumerate(), from unit k at byte i
ScanBytes(data, k, i, st) ==
    IF k > Len(data) THEN st
    ELSE IF data[k] = NL
    THEN ScanBytes(data, k + 1, i + 1, OnNewline(data, st, k, i))
    ELSE ScanBytes(data, k + 1, i + Width(data[k]), st)

\* a count that forgets a last line without a newline
LastLineCount_terminated_only(line_count, current_offset, size) == line_count

\* the line count after the scan: a last line without a newline counts
LastLineCount(line_count, current_offset, size) ==
    IF current_offset < size THEN line_count + 1 ELSE line_count

build_index(file_path, data) ==
    LET index == FileIndex_new(file_path, ByteLen(data))
        st == ScanBytes(data, 1, 0,
                        [line_count |-> 0, categories |-> EmptyMap,
                         level_counts |-> EmptyMap, line_offsets |-> <<0>>,
                         current_offset |-> 0, current_unit |-> 1])
        line_count ==
            LastLineCount(st.line_count, st.current_offset, ByteLen(data))
    IN  [index EXCEPT !.total_lines = line_count,
                      !.line_offsets = st.line_offsets,
                      !.categories = st.categories,
                      !.level_counts = st.level_counts]

\* FileIndexer::open then build_index; the file is there and readable
index_file(path) == build_index(path, fs[path])

-----------------------------------------------------------------------------
(* std::io: Seek and BufRead::lines over a file's content *)

\* the first unit at or after byte offset off (Len(data) + 1: end of file)
SeekUnit(data, off) ==
    CHOOSE k \in 1..(Len(data) + 1) :
        /\ (k <= Len(data) => ByteOffset(data, k) >= off)
        /\ \A j \in 1..(k - 1) : ByteOffset(data, j) < off

\* the line read from the front of units: its text without the newline and
\* without a carriage return before it, whether it is valid UTF-8, and the
\* units left after it
NextLine(units) ==
    LET nls == {k \in 1..Len(units) : units[k] = NL}
        e == IF nls = {} THEN Len(units) + 1
             ELSE CHOOSE k \in nls : \A o \in nls : k <= o
        body == SubSeq(units, 1, e - 1)
        text == IF nls # {} /\ body # <<>> /\ body[Len(body)] = CR
                THEN SubSeq(body, 1, Len(body) - 1) ELSE body
    IN  [text |-> text, valid |-> IsUtf8(body),
         rest |-> SubSeq(units, e + 1, Len(units))]

RECURSIVE ReadLines(_)
\* BufRead::lines: the items the iterator yields until end of file
ReadLines(units) ==
    IF units = <<>> THEN <<>>
    ELSE LET l == NextLine(units)
         IN  <<[text |-> l.text, valid |-> l.valid]>> \o ReadLines(l.rest)

\* where a scan that starts at checkpoint offset_index begins: the byte
\* offset it seeks to (0, the position of a freshly opened file, when the
\* index has no such checkpoint) and the number it gives the first line
SeekOf(index, offset_index) ==
    [offset_index |-> offset_index,
     file_offset |-> IF offset_index < Len(index.line_offsets)
                     THEN index.line_offsets[offset_index + 1] ELSE 0,
     first_line |-> offset_index * INDEX_INTERVAL + 1]

\* the iterator of reader.lines() after seek(SeekFrom::Start(off))
LinesFrom(data, off) == ReadLines(SubSeq(data, SeekUnit(data, off), Len(data)))

-----------------------------------------------------------------------------
(* streaming/line_reader.rs *)

\* CACHE_SIZE, the chunks the cache holds.  The program's value is 100; the
\* model takes a small one, so that a file of a few checkpoints fills it.
CACHE_SIZE == 2

\* LineReader::from_index; the file is there and can be opened
from_index(path, index) ==
    [path |-> path, index |-> index, cache |-> [k \in {} |-> 0]]

\* a cache that drops its newest chunk instead
OldestKeys_newest(cache) ==
    {k \in DOMAIN cache :
        \A o \in DOMAIN cache : cache[k].access_time >= cache[o].access_time}

\* the keys min_by_key may return: those with the least access_time
OldestKeys(cache) ==
    {k \in DOMAIN cache :
        \A o \in DOMAIN cache : cache[k].access_time <= cache[o].access_time}

\* cache_chunk on state c = [cache, now, inserts]; inserts records, for each
\* insertion, the cache it met, the key it removed and the keys it left
cache_chunk(c, chunk_index, entries) ==
    LET full == Cardinality(DOMAIN c.cache) >= CACHE_SIZE
        oldest_key ==
            IF full /\ DOMAIN c.cache # {}
            THEN Some(CHOOSE k \in OldestKeys(c.cache) : TRUE) ELSE None
        kept == IF oldest_key.some
                THEN DOMAIN c.cache \ {oldest_key.val} ELSE DOMAIN c.cache
        item == [entries |-> entries, access_time |-> c.now]
    IN  [cache |-> [k \in kept \cup {chunk_index} |->
                        IF k = chunk_index THEN item ELSE c.cache[k]],
         now |-> c.now + 1,
         inserts |-> Append(c.inserts,
                            [met |-> c.cache, key |-> chunk_index,
                             removed |-> oldest_key,
                             left |-> kept \cup {chunk_index}])]

\* the rest of an iteration of the for loop of read_range, once the line
\* numbered current_line has been read (valid: it is UTF-8) and parsed
PushEntry(st, current_line, valid, entry, start_line, end_line, chunk_index) ==
    LET chunk_entries == Append(st.chunk_entries, entry)
        entries == IF current_line >= start_line /\ current_line <= end_line
                   THEN Append(st.entries, entry) ELSE st.entries
    IN  IF ~valid
        THEN [st EXCEPT !.current_line = current_line, !.failed = TRUE]
        ELSE IF current_line >= end_line
        THEN [st EXCEPT !.current_line = current_line, !.entries = entries,
                        !.chunk_entries = chunk_entries, !.broke = TRUE]
        ELSE IF Len(chunk_entries) >= INDEX_INTERVAL
        THEN [st EXCEPT !.current_line = current_line, !.entries = entries,
                        !.chunk_entries = <<>>,
                        !.c = cache_chunk(st.c, chunk_index, chunk_entries)]
        ELSE [st EXCEPT !.current_line = current_line, !.entries = entries,
                        !.chunk_entries = chunk_entries]

\* one iteration of the for loop of read_range, on the line numbered
\* st.current_line + 1
ReadStep(st, line, start_line, end_line, chunk_index) ==
    PushEntry(st, st.current_line + 1, line.valid,
              parse_line(st.current_line + 1, line.text),
              start_line, end_line, chunk_index)

RECURSIVE ReadLoop(_, _, _, _, _, _)
\* the for loop of read_range over the lines from the j-th on
ReadLoop(lines, j, st, start_line, end_line, chunk_index) ==
    IF j > Len(lines) \/ st.failed \/ st.broke THEN st
    ELSE ReadLoop(lines, j + 1,
                  ReadStep(st, lines[j], start_line, end_line, chunk_index),
                  start_line, end_line, chunk_index)

LogChunk(start_line, end_line, entries) ==
    [start_line |-> start_line, end_line |-> end_line, entries |-> entries]

\* a reader that does not clamp the end of the range
ClampRange_open_end(start_line, end_line, total_lines) ==
    [start_line |-> Max(start_line, 1), end_line |-> end_line]

\* the range read_range works on: start_line.max(1), end_line.min(total_lines)
ClampRange(start_line, end_line, total_lines) ==
    [start_line |-> Max(start_line, 1),
     end_line |-> Min(end_line, total_lines)]

\* the end of read_range after the loop has left st: the last, partial
\* block is cached, and the chunk or the error of the loop is returned
FinishRead(r, start_line, end_line, st, c) ==
    [reader |-> [r EXCEPT !.cache = c.cache], now |-> c.now,
     io |-> "seek+read", inserts |-> c.inserts,
     result |->
        IF st.failed
        THEN [ok |-> FALSE, err |-> "stream did not contain valid UTF-8"]
        ELSE [ok |-> TRUE,
              chunk |-> LogChunk(start_line, Min(st.current_line, end_line),
                                 st.entries)]]

\* read_range from the seek on, st being the state the loop has left
CacheLeftover(r, start_line, end_line, chunk_index, st) ==
    FinishRead(r, start_line, end_line, st,
               IF ~st.failed /\ st.chunk_entries # <<>>
               THEN cache_chunk(st.c, chunk_index, st.chunk_entries)
               ELSE st.c)

\* a probe that stamps the chunk it hits, as an LRU cache would
CacheHit_stamps_access(r, t, chunk_index, chunk) ==
    [reader |-> [r EXCEPT !.cache[chunk_index].access_time = t],
     now |-> t + 1, io |-> "none", inserts |-> <<>>,
     result |-> [ok |-> TRUE, chunk |-> chunk]]

\* the return of read_range from its cache probe: the reader is not touched
CacheHit(r, t, chunk_index, chunk) ==
    [reader |-> r, now |-> t, io |-> "none", inserts |-> <<>>,
     result |-> [ok |-> TRUE, chunk |-> chunk]]

\* the checkpoint read_range starts from: start_line / INDEX_INTERVAL
ChunkIndexOf(start_line) == start_line \div INDEX_INTERVAL

\* read_range on reader r at clock t: the reader afterwards, the clock, what
\* is returned, and what the call did (whether it read from the file, the
\* cache insertions it made)
read_range(r, t, start_line0, end_line0) ==
    LET start_line ==
            ClampRange(start_line0, end_line0, r.index.total_lines).start_line
        end_line ==
            ClampRange(start_line0, end_line0, r.index.total_lines).end_line
        chunk_index == ChunkIndexOf(start_line)
        cached == IF chunk_index \in DOMAIN r.cache
                  THEN SelectSeq(r.cache[chunk_index].entries,
                                 LAMBDA e : /\ e.line_number >= start_line
                                            /\ e.line_number <= end_line)
                  ELSE <<>>
        seek == SeekOf(r.index, ChunkIndexOf(start_line))
    IN  IF start_line > end_line
        THEN [reader |-> r, now |-> t, io |-> "none", inserts |-> <<>>,
              result |-> [ok |-> TRUE,
                          chunk |-> LogChunk(start_line, start_line, <<>>)]]
        ELSE IF cached # <<>>
        THEN CacheHit(r, t, chunk_index,
                      LogChunk(start_line, end_line, cached))
        ELSE CacheLeftover(r, start_line, end_line, chunk_index,
                ReadLoop(LinesFrom(fs[r.path], seek.file_offset), 1,
                         [current_line |-> seek.first_line - 1,
                          entries |-> <<>>, chunk_entries |-> <<>>,
                          c |-> [cache |-> r.cache, now |-> t,
                                 inserts |-> <<>>],
                          failed |-> FALSE, broke |-> FALSE],
                         start_line, end_line, chunk_index))

\* Ok(chunk.entries) of read_preview, or the error of read_range
PreviewOf(rr) ==
    [rr EXCEPT !.result =
        IF rr.result.ok
        THEN [ok |-> TRUE, entries |-> rr.result.chunk.entries]
        ELSE rr.result]

\* a preview that reads the whole file
read_preview_whole(r, t, count) ==
    PreviewOf(read_range(r, t, 1, r.index.total_lines))

\* read_preview: the entries of read_range(1, min(count, total_lines))
read_preview(r, t, count) ==
    PreviewOf(read_range(r, t, 1, Min(count, r.index.total_lines)))

\* clear_cache
clear_cache(r) == [r EXCEPT !.cache = [k \in {} |-> 0]]

-----------------------------------------------------------------------------
(* search/regex_engine.rs *)

\* SearchOptions; start_line and end_line are Option<u64>
SearchOptions(pattern, use_regex, case_insensitive, start_line, end_line) ==
    [pattern |-> pattern, use_regex |-> use_regex,
     case_insensitive |-> case_insensitive,
     start_line |-> start_line, end_line |-> end_line]

\* the units that are regex metacharacters
MetaUnits == {"(", "["}

\* SearchEngine::new: a pattern of plain units compiles to itself; a lone
\* metacharacter compiles only escaped, that is, in literal mode
SearchEngine_new(options) ==
    IF options.use_regex /\ \E k \in 1..Len(options.pattern) :
                                options.pattern[k] \in MetaUnits
    THEN [ok |-> FALSE, err |-> "regex parse error"]
    ELSE [ok |-> TRUE,
          engine |-> [pattern |-> options.pattern,
                      case_insensitive |-> options.case_insensitive]]

UnitMatches(engine, p, t) ==
    IF engine.case_insensitive THEN ToLowerUnit(p) = ToLowerUnit(t) ELSE p = t

\* the pattern matches text at units k .. k + Len(pattern) - 1
MatchesAt(engine, text, k) ==
    /\ k + Len(engine.pattern) - 1 <= Len(text)
    /\ \A j \in 1..Len(engine.pattern) :
          UnitMatches(engine, engine.pattern[j], text[k + j - 1])

RECURSIVE FindIter(_, _, _, _)
\* regex.find_iter(text) from unit k on: leftmost matches, not overlapping;
\* after an empty match the search resumes one character further
FindIter(engine, text, k, line_number) ==
    IF k > Len(text) + 1 THEN <<>>
    ELSE IF MatchesAt(engine, text, k)
    THEN LET e == k + Len(engine.pattern)
         IN  <<[line_number |-> line_number,
                matched_text |-> SubSeq(text, k, e - 1),
                start |-> ByteOffset(text, k),
                end |-> ByteOffset(text, e)]>>
             \o FindIter(engine, text, IF e = k THEN k + 1 ELSE e, line_number)
    ELSE FindIter(engine, text, k + 1, line_number)

search_in_string(engine, text, line_number) ==
    FindIter(engine, text, 1, line_number)

\* u64 arithmetic that can leave the range: with overflow checks the
\* operation panics, without them it wraps
U64Modulus == 2^20
SubU64(a, b) == IF a >= b THEN a - b ELSE a - b + U64Modulus
AddU64(a, b) == (a + b) % U64Modulus

\* the checkpoint the searches seek to: (start_line - 1) / INDEX_INTERVAL
CheckpointOf(start_line) == SubU64(start_line, 1) \div INDEX_INTERVAL

\* the lines the search loops iterate over: each with the number the loop
\* gives it and its place in the file
SearchLines(data, index, offset_index) ==
    LET from == SeekUnit(data, SeekOf(index, offset_index).file_offset)
        skipped == Cardinality({k \in 1..(from - 1) : data[k] = NL})
        lines == ReadLines(SubSeq(data, from, Len(data)))
    IN  [i \in 1..Len(lines) |->
            [text |-> lines[i].text, valid |-> lines[i].valid,
             line_number |-> SeekOf(index, offset_index).first_line + (i - 1),
             actual |-> skipped + i]]

RECURSIVE SearchLoop(_, _, _, _, _, _, _)
\* the for loop shared by search_in_file and search_next_page (limit is
\* None in search_in_file, Some(max_results) in search_next_page)
SearchLoop(engine, lines, i, acc, start_line, end_line, limit) ==
    IF i > Len(lines) THEN acc
    ELSE LET l == lines[i]
         IN  IF \/ l.line_number > end_line
                \/ (limit.some /\ Len(acc.results) >= limit.val)
             THEN acc
             ELSE IF l.line_number < start_line
             THEN SearchLoop(engine, lines, i + 1, acc,
                             start_line, end_line, limit)
             ELSE IF ~l.valid
             THEN [acc EXCEPT !.ok = FALSE]
             ELSE SearchLoop(engine, lines, i + 1,
                     [acc EXCEPT
                        !.results = @ \o search_in_string(engine, l.text,
                                                          l.line_number),
                        !.scanned = Append(@, [line_number |-> l.line_number,
                                               actual |-> l.actual])],
                     start_line, end_line, limit)

SearchOutcome(acc) ==
    IF acc.ok
    THEN [ok |-> TRUE, results |-> acc.results, scanned |-> acc.scanned]
    ELSE [ok |-> FALSE, err |-> "stream did not contain valid UTF-8",
          scanned |-> acc.scanned]

Panic == [ok |-> FALSE, panic |-> "arithmetic overflow", scanned |-> <<>>]

\* search_in_file; checks: the build has overflow checks
search_in_file(engine, path, index, options, checks) ==
    LET start_line == IF options.start_line.some
                      THEN options.start_line.val ELSE 1
        end_line == IF options.end_line.some
                    THEN options.end_line.val ELSE index.total_lines
        offset_index == CheckpointOf(start_line)
    IN  IF start_line < 1 /\ checks THEN Panic
        ELSE SearchOutcome(
                SearchLoop(engine, SearchLines(fs[path], index, offset_index), 1,
                           [ok |-> TRUE, results |-> <<>>, scanned |-> <<>>],
                           start_line, end_line, None))

\* the lookahead of search_next_page, in lines.  The program's value is
\* 10000; the model takes a small one above INDEX_INTERVAL.
PAGE_WINDOW == 4

\* a page without a window: it runs to the end of the file
PageEnd_no_window(from_line, total_lines) == total_lines

\* the last line of a page: (from_line + 10000).min(total_lines)
PageEnd(from_line, total_lines) ==
    Min(AddU64(from_line, PAGE_WINDOW), total_lines)

\* search_next_page; checks: the build has overflow checks
search_next_page(engine, path, index, from_line, max_results, checks) ==
    LET end_line == PageEnd(from_line, index.total_lines)
        offset_index == CheckpointOf(from_line)
    IN  IF (from_line + PAGE_WINDOW >= U64Modulus \/ from_line < 1) /\ checks
        THEN Panic
        ELSE SearchOutcome(
                SearchLoop(engine, SearchLines(fs[path], index, offset_index), 1,
                           [ok |-> TRUE, results |-> <<>>, scanned |-> <<>>],
                           from_line, end_line, Some(max_results)))

-----------------------------------------------------------------------------
(* The files the specifications draw from *)

\* lines joined by newline bytes; the last one is terminated iff terminated
FileOf(lines, terminated) ==
    IF lines = <<>> THEN <<>>
    ELSE Concat([k \in 1..Len(lines) |->
                    IF k < Len(lines) \/ terminated
                    THEN Append(lines[k], NL) ELSE lines[k]])

SeqsUpTo(S, n) == UNION {[1..m -> S] : m \in 0..n}

MaxIndexLines == 6

IndexLineTexts ==
    { <<>>,
      <<"LogInit", ":", " ", "Error", ":", " ", "a">>,
      <<"[", "a", "]", "[", " ", "7", "]", "LogCore", ":", "Warning", ":", E9>>,
      <<XFF, ":", "Error", ":">> }

IndexFiles ==
    {FileOf(ls, t) : ls \in SeqsUpTo(IndexLineTexts, MaxIndexLines),
                     t \in BOOLEAN}

LogPath == "a.log"

-----------------------------------------------------------------------------
(* commands/file_commands.rs and commands/search_commands.rs: each command  *)
(* runs under the mutex of the AppState, as one step                       *)

\* the number of lines open_log_file previews.  The program's value is 100;
\* the model takes a small one below INDEX_INTERVAL.
PREVIEW_LINES == 1

\* the latest clock value at which a command that may fill the cache starts
MaxNow == 3

Err(msg) == [ok |-> FALSE, err |-> msg]

\* state.lock().map_err(|e| e.to_string()) on a poisoned mutex
PoisonError == Err("poisoned lock: another task failed inside")

\* an open that stores the new file before reading its preview
open_log_file_installs_first(path) ==
    IF path \notin DOMAIN fs
    THEN /\ ret' = [op |-> "open_log_file", path |-> path,
                    result |-> Err("File not found")]
         /\ UNCHANGED <<fs, current_file, current_index, line_reader, now,
                        poisoned>>
    ELSE \E index \in {index_file(path)} :
         \E preview \in {read_preview(from_index(path, index), now,
                                       PREVIEW_LINES)} :
            /\ current_file' = IF poisoned THEN current_file ELSE Some(path)
            /\ current_index' = IF poisoned THEN current_index
                                 ELSE Some(index)
            /\ line_reader' = IF poisoned THEN line_reader
                               ELSE Some(preview.reader)
            /\ now' = preview.now
            /\ ret' = [op |-> "open_log_file", path |-> path,
                       result |-> IF poisoned THEN PoisonError
                                  ELSE IF ~preview.result.ok
                                  THEN Err("Failed to read preview")
                                  ELSE [ok |-> TRUE, index |-> index,
                                        preview |-> preview.result.entries]]
            /\ UNCHANGED <<fs, poisoned>>

open_log_file(path) ==
    IF path \notin DOMAIN fs
    THEN /\ ret' = [op |-> "open_log_file", path |-> path,
                    result |-> Err("File not found")]
         /\ UNCHANGED <<fs, current_file, current_index, line_reader, now,
                        poisoned>>
    ELSE \E index \in {index_file(path)} :
         \E preview \in {read_preview(from_index(path, index), now,
                                       PREVIEW_LINES)} :
            IF ~preview.result.ok
            THEN /\ ret' = [op |-> "open_log_file", path |-> path,
                            result |-> Err("Failed to read preview")]
                 /\ UNCHANGED <<fs, current_file, current_index,
                                line_reader, now, poisoned>>
            ELSE IF poisoned
            THEN \* the preview has been read on the new reader, which is
                 \* dropped; the clock has moved
                 /\ now' = preview.now
                 /\ ret' = [op |-> "open_log_file", path |-> path,
                            result |-> PoisonError]
                 /\ UNCHANGED <<fs, current_file, current_index,
                                line_reader, poisoned>>
            ELSE /\ current_file' = Some(path)
                 /\ current_index' = Some(index)
                 /\ line_reader' = Some(preview.reader)
                 /\ now' = preview.now
                 /\ ret' = [op |-> "open_log_file", path |-> path,
                            result |-> [ok |-> TRUE, index |-> index,
                                        preview |-> preview.result.entries]]
                 /\ UNCHANGED <<fs, poisoned>>

load_chunk(start_line, end_line) ==
    IF poisoned \/ ~line_reader.some
    THEN /\ ret' = [op |-> "load_chunk", start_line |-> start_line,
                    end_line |-> end_line,
                    result |-> IF poisoned THEN PoisonError
                               ELSE Err("No file opened"),
                    io |-> "none", inserts |-> <<>>, repeated |-> None]
         /\ UNCHANGED <<fs, current_file, current_index, line_reader, now,
                        poisoned>>
    ELSE \E rr \in {read_range(line_reader.val, now, start_line, end_line)} :
             /\ line_reader' = Some(rr.reader)
             /\ now' = rr.now
             /\ ret' = [op |-> "load_chunk", start_line |-> start_line,
                        end_line |-> end_line, result |-> rr.result,
                        io |-> rr.io, inserts |-> rr.inserts,
                        \* the result of the call before, when it was the
                        \* same call on the same reader
                        repeated |->
                            IF /\ ret.op = "load_chunk"
                               /\ ret.start_line = start_line
                               /\ ret.end_line = end_line
                            THEN Some(ret.result) ELSE None]
             /\ UNCHANGED <<fs, current_file, current_index, poisoned>>

get_file_index ==
    /\ ret' = [op |-> "get_file_index",
               result |-> IF poisoned THEN PoisonError
                          ELSE [ok |-> TRUE, index |-> current_index]]
    /\ UNCHANGED <<fs, current_file, current_index, line_reader, now,
                   poisoned>>

\* a close that forgets to drop the index
close_file_keeps_index ==
    IF poisoned
    THEN /\ ret' = [op |-> "close_file", result |-> PoisonError]
         /\ UNCHANGED <<fs, current_file, current_index, line_reader, now,
                        poisoned>>
    ELSE /\ current_file' = None
         /\ line_reader' = None
         /\ ret' = [op |-> "close_file", result |-> [ok |-> TRUE]]
         /\ UNCHANGED <<fs, current_index, now, poisoned>>

\* a close that insists on an open file
close_file_requires_open ==
    IF poisoned \/ ~current_file.some
    THEN /\ ret' = [op |-> "close_file",
                    result |-> IF poisoned THEN PoisonError
                               ELSE Err("No file opened")]
         /\ UNCHANGED <<fs, current_file, current_index, line_reader, now,
                        poisoned>>
    ELSE /\ current_file' = None
         /\ current_index' = None
         /\ line_reader' = None
         /\ ret' = [op |-> "close_file", result |-> [ok |-> TRUE]]
         /\ UNCHANGED <<fs, now, poisoned>>

close_file ==
    IF poisoned
    THEN /\ ret' = [op |-> "close_file", result |-> PoisonError]
         /\ UNCHANGED <<fs, current_file, current_index, line_reader, now,
                        poisoned>>
    ELSE /\ current_file' = None
         /\ current_index' = None
         /\ line_reader' = None
         /\ ret' = [op |-> "close_file", result |-> [ok |-> TRUE]]
         /\ UNCHANGED <<fs, now, poisoned>>

\* what a search command does with the outcome of its body: it returns it,
\* and a panic of the body unwinds through the lock guard and poisons the
\* mutex
Searched(call, result) ==
    /\ ret' = [call EXCEPT !.result = result]
    /\ poisoned' = (poisoned \/ "panic" \in DOMAIN result)
    /\ UNCHANGED <<fs, current_file, current_index, line_reader, now>>

search_logs(options, checks) ==
    Searched([op |-> "search_logs", options |-> options, result |-> None],
             IF poisoned THEN PoisonError
             ELSE IF ~current_file.some THEN Err("No file opened")
             ELSE IF ~current_index.some THEN Err("No file index available")
             ELSE IF ~SearchEngine_new(options).ok
             THEN Err("Invalid search pattern")
             ELSE search_in_file(SearchEngine_new(options).engine,
                                 current_file.val, current_index.val,
                                 options, checks))

search_next(from_line, max_results, options, checks) ==
    Searched([op |-> "search_next", options |-> options,
              from_line |-> from_line, max_results |-> max_results,
              result |-> None],
             IF poisoned THEN PoisonError
             ELSE IF ~current_file.some THEN Err("No file opened")
             ELSE IF ~current_index.some THEN Err("No file index available")
             ELSE IF ~SearchEngine_new(options).ok
             THEN Err("Invalid search pattern")
             ELSE search_next_page(SearchEngine_new(options).engine,
                                   current_file.val, current_index.val,
                                   from_line, max_results, checks))

-----------------------------------------------------------------------------
(* Spec: a session over the files of a small disk *)

MaxReaderLines == 5

\* the text of the n-th line of the session's log
ReaderLineText(n) ==
    CASE n = 1 -> <<HDR, " ", DT>>
      [] n = 2 -> <<"LogInit", ":", " ", "Display", ":", " ", "a", " ">>
      [] n = 3 -> <<" ", "b">>
      [] n = 4 -> <<"[", TS, "]", "[", " ", "42", "]", "LogCore", ":", " ",
                    "Error", ":", " ", "a", "b">>
      [] n = 5 -> <<>>
      [] n = 6 -> <<"a", "b", "a">>
      [] n = 7 -> <<"LogCore", ":", "Warning", ":", "b", CR>>
      [] OTHER -> <<"Foo", ":", "error", ":", "a">>

ReaderFiles ==
    {FileOf([k \in 1..n |-> ReaderLineText(k)], t) :
        n \in 0..MaxReaderLines, t \in BOOLEAN}

OtherPath == "b.log"
BadPath == "bad.log"
MissingPath == "missing.log"
Paths == {LogPath, OtherPath, BadPath, MissingPath}

Init ==
    /\ fs \in {[p \in {LogPath, OtherPath, BadPath} |->
                  CASE p = LogPath -> d
                    [] p = OtherPath -> <<"b", NL, "a", "a">>
                    [] p = BadPath -> <<XFF, NL, "a", NL>>] : d \in ReaderFiles}
    /\ current_file = None
    /\ current_index = None
    /\ line_reader = None
    /\ now = 0
    /\ poisoned = FALSE
    /\ mutex = None
    /\ tasks = <<>>
    /\ ret = [op |-> "none"]

LineArgs == 0..(MaxReaderLines + 1)

SessionOptions ==
    {SearchOptions(<<"a">>, FALSE, TRUE, None, None),
     SearchOptions(<<"(">>, TRUE, FALSE, None, None)}

\* one command at a time: each action is a whole command, run under the
\* mutex from its lock() to its return
Sequential == UNCHANGED <<mutex, tasks>>

Open ==
    /\ \E path \in Paths : now <= MaxNow /\ open_log_file(path)
    /\ Sequential
LoadChunk ==
    /\ \E s \in LineArgs, e \in LineArgs : now <= MaxNow /\ load_chunk(s, e)
    /\ Sequential
GetIndex == get_file_index /\ Sequential
Close == close_file /\ Sequential
SearchLogs ==
    /\ \E o \in SessionOptions : search_logs(o, TRUE)
    /\ Sequential
\* from_line = 0 panics in a build with overflow checks
SearchNext ==
    /\ \E from_line \in {0, 1}, o \in SessionOptions, checks \in BOOLEAN :
          search_next(from_line, 1, o, checks)
    /\ Sequential

Next == Open \/ LoadChunk \/ GetIndex \/ Close \/ SearchLogs \/ SearchNext

Spec == Init /\ [][Next]_vars

-----------------------------------------------------------------------------
(* SpecSearch: the search commands on an open file, over every file of     *)
(* SearchFiles and every choice of range, page and case sensitivity.  A    *)
(* search command leaves the session as it found it, so one command per    *)
(* behaviour reaches every result there is.                                *)

MaxSearchLines == 6

\* lines with no, one or two matches of "a" (two when case is ignored)
SearchLineTexts == { <<"b">>, <<"a", E9, "A">> }

\* files of BadLineFileLen lines, one of which is not UTF-8: a line after
\* the preview, which open_log_file has read
BadLineFileLen == 3
BadLineFiles ==
    UNION {{FileOf([ls EXCEPT ![k] = <<XFF>>], t) :
                k \in (PREVIEW_LINES + 1)..BadLineFileLen} :
              ls \in [1..BadLineFileLen -> SearchLineTexts], t \in BOOLEAN}

SearchFiles ==
    {FileOf(ls, t) : ls \in SeqsUpTo(SearchLineTexts, MaxSearchLines),
                     t \in BOOLEAN}
    \cup BadLineFiles

\* the session after open_log_file(LogPath) has succeeded
OpenedSearchFile ==
    /\ fs \in {[p \in {LogPath} |-> d] : d \in SearchFiles}
    /\ current_file = Some(LogPath)
    /\ current_index = Some(index_file(LogPath))
    /\ \E preview \in {read_preview(from_index(LogPath, current_index.val),
                                     0, PREVIEW_LINES)} :
          /\ line_reader = Some(preview.reader)
          /\ now = preview.now
    /\ poisoned = FALSE
    /\ mutex = None
    /\ tasks = <<>>

InitSearch ==
    /\ OpenedSearchFile
    /\ ret = [op |-> "none"]

SearchLineArgs == 0..(MaxSearchLines + 1)
\* the pages asked for: from any line, and from the largest u64
FromLineArgs == SearchLineArgs \cup {U64Modulus - 1}
OptLineArgs == {None} \cup {Some(n) : n \in SearchLineArgs}
MaxResultsArg == 2

SearchInFile ==
    /\ ret.op = "none"
    /\ \E ci \in BOOLEAN, s \in OptLineArgs, e \in OptLineArgs,
          checks \in BOOLEAN :
        search_logs(SearchOptions(<<"a">>, FALSE, ci, s, e), checks)
    /\ Sequential

SearchNextPage ==
    /\ ret.op = "none"
    /\ \E ci \in BOOLEAN, from_line \in FromLineArgs,
          max_results \in 0..MaxResultsArg, checks \in BOOLEAN :
        search_next(from_line, max_results,
                    SearchOptions(<<"a">>, TRUE, ci, None, None), checks)
    /\ Sequential

NextSearch == SearchInFile \/ SearchNextPage

SpecSearch == InitSearch /\ [][NextSearch]_vars

-----------------------------------------------------------------------------
(* SpecParse: parse_line applied to every line of ParseInputs *)

MaxParseLen == 3
MaxParseLineNumber == 2

\* lines of each format, complete and cut short
ParseBodies ==
    { <<>>,
      <<"[", TS, "]", "[", " ", "42", "]", "LogCore", ":", " ", "Error", ":",
        " ", "a", " ", "b">>,
      <<"[", TS, "]", "[", "7", "]", "LogInit", ":", "warning", ":">>,
      <<"[", TS, "]", "[", "]", "LogInit", ":", "Warning", ":", "a">>,
      <<"[", TS, "]", "LogInit", ":", "Warning", ":", "a">>,
      <<"LogInit", ":", " ", "Display", ":", " ", "a">>,
      <<"LogInit", ":", "Foo", ":", "a", ":", "b">>,
      <<"LogInit", ":", " ", "a">>,
      <<HDR, " ", DT>>,
      <<HDR, DT, " ", "a">>,
      <<HDR, " ", "a">>,
      <<"a", " ", HDR, " ", DT>>,
      <<"a", ">", "b">> }

ParseInputs ==
    {p \o b \o e : p \in {<<>>, <<" ">>, <<">">>, <<CR>>},
                   b \in ParseBodies,
                   e \in {<<>>, <<" ">>, <<CR>>, <<" ", CR>>}}
    \cup SeqsUpTo({" ", ">", ":", "a", "Error", CR}, MaxParseLen)

InitParse ==
    /\ fs = [p \in {} |-> <<>>]
    /\ current_file = None
    /\ current_index = None
    /\ line_reader = None
    /\ now = 0
    /\ poisoned = FALSE
    /\ mutex = None
    /\ tasks = <<>>
    /\ ret \in {[op |-> "input", line_number |-> n, content |-> c] :
                   n \in 1..MaxParseLineNumber, c \in ParseInputs}

ParseLine ==
    /\ ret.op = "input"
    /\ ret' = [op |-> "parse_line", line_number |-> ret.line_number,
               content |-> ret.content,
               entry |-> parse_line(ret.line_number, ret.content)]
    /\ UNCHANGED <<fs, current_file, current_index, line_reader, now,
                   poisoned, mutex, tasks>>

NextParse == ParseLine

SpecParse == InitParse /\ [][NextParse]_vars

-----------------------------------------------------------------------------
(* SpecConc: the commands issued concurrently.  Each task runs commands one *)
(* after the other; a command is cut where another task can run between    *)
(* its steps: before it takes the lock of the session mutex, and, for the  *)
(* commands that read or search a file, between the start and the end of   *)
(* the reading.  lock() blocks while another task holds the guard.         *)

NumTasks == 2
MaxCommands == 3

Tasks == 1..NumTasks
ConcPaths == {LogPath, OtherPath, MissingPath}
ConcRanges == {<<1, 2>>, <<2, 3>>}

RECURSIVE Issued(_)
Issued(n) == IF n = 0 THEN 0 ELSE tasks[n].issued + Issued(n - 1)

\* a task between two commands, one that can issue its next command, and
\* the tasks once task t's command has returned
Idle(issued) == [pc |-> "idle", issued |-> issued]
CanStart(t) == tasks[t].pc = "idle" /\ Issued(NumTasks) < MaxCommands
Finished(t) == [tasks EXCEPT ![t] = Idle(tasks[t].issued + 1)]

\* an open that keeps the reader of the file that was open before
installed_reader_kept(reader) ==
    IF line_reader.some THEN line_reader.val ELSE reader

\* state.line_reader = Some(reader): the reader the open created and read
\* its preview on
installed_reader(reader) == reader

\* a guard dropped before the reading starts
lock_guard_dropped_early(t) == None

\* what a command's `state` guard makes of the mutex while the command
\* reads: the guard lives until the command returns
lock_guard(t) == Some(t)

InitConc ==
    /\ fs = [p \in {LogPath, OtherPath} |->
                IF p = LogPath THEN <<"a", NL, "b", NL, "a", NL>>
                ELSE <<"c", NL, "a", "a">>]
    /\ current_file = None
    /\ current_index = None
    /\ line_reader = None
    /\ now = 0
    /\ poisoned = FALSE
    /\ ret = [op |-> "none"]
    /\ mutex = None
    /\ tasks = [t \in Tasks |-> Idle(0)]

\* open_log_file up to LineReader::from_index: the index is built and a
\* reader of its own, on a file handle of its own, is created; the task is
\* then inside read_preview on that reader
OpenBegin(t) ==
    /\ CanStart(t)
    /\ \E path \in ConcPaths :
          tasks' = IF path \notin DOMAIN fs THEN Finished(t)
                   ELSE [tasks EXCEPT ![t] =
                           [pc |-> "open_preview", issued |-> tasks[t].issued,
                            path |-> path,
                            reader |-> [handle |-> <<t, tasks[t].issued>>]
                                       @@ from_index(path, index_file(path))]]
    /\ UNCHANGED <<fs, current_file, current_index, line_reader, now,
                   poisoned, ret, mutex>>

\* read_preview returns
OpenPreview(t) ==
    /\ tasks[t].pc = "open_preview"
    /\ \E preview \in {read_preview(tasks[t].reader, now, PREVIEW_LINES)} :
          /\ now' = preview.now
          /\ tasks' = IF ~preview.result.ok THEN Finished(t)
                       ELSE [tasks EXCEPT ![t].pc = "open_install",
                                          ![t].reader = preview.reader]
    /\ UNCHANGED <<fs, current_file, current_index, line_reader, poisoned,
                   ret, mutex>>

\* the state update of open_log_file, under the lock
OpenInstall(t) ==
    /\ tasks[t].pc = "open_install"
    /\ mutex = None
    /\ IF poisoned
       THEN UNCHANGED <<current_file, current_index, line_reader>>
       ELSE /\ current_file' = Some(tasks[t].path)
            /\ current_index' = Some(tasks[t].reader.index)
            /\ line_reader' = Some(installed_reader(tasks[t].reader))
    /\ tasks' = Finished(t)
    /\ UNCHANGED <<fs, now, poisoned, ret, mutex>>

\* load_chunk takes the lock and, with a reader there, enters read_range
LoadBegin(t) ==
    /\ CanStart(t)
    /\ mutex = None
    /\ \E range \in ConcRanges :
          IF poisoned \/ ~line_reader.some
          THEN tasks' = Finished(t) /\ UNCHANGED mutex
          ELSE /\ mutex' = lock_guard(t)
               /\ tasks' = [tasks EXCEPT ![t] =
                              [pc |-> "load_reading", issued |-> tasks[t].issued,
                               start_line |-> range[1], end_line |-> range[2],
                               handle |-> line_reader.val.handle]]
    /\ UNCHANGED <<fs, current_file, current_index, line_reader, now,
                   poisoned, ret>>

\* read_range returns and load_chunk with it: the guard is dropped
LoadEnd(t) ==
    /\ tasks[t].pc = "load_reading"
    /\ line_reader.some
    /\ \E rr \in {read_range(line_reader.val, now, tasks[t].start_line,
                              tasks[t].end_line)} :
          /\ line_reader' = Some(rr.reader)
          /\ now' = rr.now
    /\ mutex' = None
    /\ tasks' = Finished(t)
    /\ UNCHANGED <<fs, current_file, current_index, poisoned, ret>>

\* close_file
CloseTask(t) ==
    /\ CanStart(t)
    /\ mutex = None
    /\ IF poisoned
       THEN UNCHANGED <<current_file, current_index, line_reader>>
       ELSE /\ current_file' = None
            /\ current_index' = None
            /\ line_reader' = None
    /\ tasks' = Finished(t)
    /\ UNCHANGED <<fs, now, poisoned, ret, mutex>>

\* search_logs (from line 1) or search_next (from_line 0 or 1) takes the
\* lock and, with a file open, enters the engine
SearchBegin(t) ==
    /\ CanStart(t)
    /\ mutex = None
    /\ \E from_line \in {0, 1} :
          IF poisoned \/ ~current_file.some
          THEN tasks' = Finished(t) /\ UNCHANGED mutex
          ELSE /\ mutex' = Some(t)
               /\ tasks' = [tasks EXCEPT ![t] =
                              [pc |-> "searching", issued |-> tasks[t].issued,
                               from_line |-> from_line]]
    /\ UNCHANGED <<fs, current_file, current_index, line_reader, now,
                   poisoned, ret>>

\* the engine returns, or panics (from_line = 0, in a build with overflow
\* checks), and the guard is dropped
SearchEnd(t) ==
    /\ tasks[t].pc = "searching"
    /\ \E checks \in BOOLEAN : poisoned' = (checks /\ tasks[t].from_line < 1)
    /\ mutex' = None
    /\ tasks' = Finished(t)
    /\ UNCHANGED <<fs, current_file, current_index, line_reader, now, ret>>

NextConc ==
    \E t \in Tasks :
        \/ OpenBegin(t) \/ OpenPreview(t) \/ OpenInstall(t)
        \/ LoadBegin(t) \/ LoadEnd(t)
        \/ CloseTask(t)
        \/ SearchBegin(t) \/ SearchEnd(t)

SpecConc == InitConc /\ [][NextConc]_vars

-----------------------------------------------------------------------------
(* SpecPages: a caller pages through a file of SearchFiles with search_next, *)
(* from line 1, each page from the line after the last result of the page   *)
(* before, until a page comes back empty                                    *)

InitPages ==
    /\ OpenedSearchFile
    /\ \E ci \in BOOLEAN, max_results \in 1..MaxResultsArg :
          ret = [op |-> "paging",
                 options |-> SearchOptions(<<"a">>, TRUE, ci, None, None),
                 max_results |-> max_results,
                 from_line |-> 1, pages |-> <<>>, calls |-> 0,
                 done |-> FALSE, ok |-> TRUE]

\* the caller's state after a page: its results are appended, and the next
\* page starts after the line of the last of them; an empty page, or an
\* error, ends the paging
Paged(page) ==
    ret' = IF ~page.ok
           THEN [ret EXCEPT !.done = TRUE, !.ok = FALSE, !.calls = @ + 1]
           ELSE IF page.results = <<>>
           THEN [ret EXCEPT !.done = TRUE, !.calls = @ + 1]
           ELSE [ret EXCEPT
                   !.pages = @ \o page.results,
                   !.calls = @ + 1,
                   !.from_line =
                       page.results[Len(page.results)].line_number + 1]

NextPageCall ==
    /\ ret.op = "paging" /\ ~ret.done
    /\ Paged(search_next_page(SearchEngine_new(ret.options).engine,
                              current_file.val, current_index.val,
                              ret.from_line, ret.max_results, TRUE))
    /\ UNCHANGED <<fs, current_file, current_index, line_reader, now,
                   poisoned, mutex, tasks>>

NextPages == NextPageCall

SpecPages == InitPages /\ [][NextPages]_vars

-----------------------------------------------------------------------------
(* SpecString: search_in_string applied to every text of StringTexts *)

MaxTextLen == 3

StringTexts == SeqsUpTo({"a", "A", "b", E9}, MaxTextLen)
StringPatterns == {<<"a">>, <<E9, "a">>}

InitString ==
    /\ fs = [p \in {} |-> <<>>]
    /\ current_file = None
    /\ current_index = None
    /\ line_reader = None
    /\ now = 0
    /\ poisoned = FALSE
    /\ mutex = None
    /\ tasks = <<>>
    /\ ret \in {[op |-> "input", text |-> t,
                  options |-> SearchOptions(p, FALSE, ci, None, None)] :
                   t \in StringTexts, p \in StringPatterns, ci \in BOOLEAN}

SearchInString ==
    /\ ret.op = "input"
    /\ ret' = [op |-> "search_in_string", text |-> ret.text,
               options |-> ret.options,
               results |-> search_in_string(SearchEngine_new(ret.options).engine,
                                            ret.text, 1)]
    /\ UNCHANGED <<fs, current_file, current_index, line_reader, now,
                   poisoned, mutex, tasks>>

NextString == SearchInString

SpecString == InitString /\ [][NextString]_vars

-----------------------------------------------------------------------------
(* SpecIndex: index_file applied to every file of IndexFiles *)

InitIndex ==
    /\ fs \in {[p \in {LogPath} |-> d] : d \in IndexFiles}
    /\ current_file = None
    /\ current_index = None
    /\ line_reader = None
    /\ now = 0
    /\ poisoned = FALSE
    /\ mutex = None
    /\ tasks = <<>>
    /\ ret = [op |-> "none"]

IndexFile ==
    /\ ret' = [op |-> "index_file", path |-> LogPath,
               index |-> index_file(LogPath)]
    /\ UNCHANGED <<fs, current_file, current_index, line_reader, now,
                   poisoned, mutex, tasks>>

NextIndex == IndexFile

SpecIndex == InitIndex /\ [][NextIndex]_vars

\* the newline bytes of a file, and where its n-th line starts
Newlines(data) == {k \in 1..Len(data) : data[k] = NL}
LineStartUnit(data, n) ==
    IF n = 1 THEN 1
    ELSE LET ks == {k \in Newlines(data) :
                      Cardinality({j \in Newlines(data) : j <= k}) = n - 1}
         IN  IF ks = {} THEN 0 ELSE (CHOOSE k \in ks : TRUE) + 1
\* line n has a first byte in the file
LineExists(data, n) ==
    LineStartUnit(data, n) # 0 /\ LineStartUnit(data, n) <= Len(data)

Indexed == ret.op = "index_file"

\* C4 (as claimed): line_offsets[0] = 0, line_offsets is strictly increasing,
\* and every line_offsets[k] is the offset of the first byte of line
\* k*index_interval + 1, a line that exists in the file.
C4_AsClaimed ==
    Indexed =>
        LET data == fs[ret.path]
            offs == ret.index.line_offsets
        IN  /\ offs[1] = 0
            /\ \A k \in 1..(Len(offs) - 1) : offs[k] < offs[k + 1]
            /\ \A k \in 0..(Len(offs) - 1) :
                  /\ LineExists(data, k * INDEX_INTERVAL + 1)
                  /\ offs[k + 1] =
                        ByteOffset(data, LineStartUnit(data, k * INDEX_INTERVAL + 1))

\* C4 (amended): line_offsets[0] = 0, line_offsets is strictly increasing,
\* there is one checkpoint per index_interval newline bytes, and every
\* line_offsets[k] with k >= 1 is the offset just past the newline that ends
\* line k*index_interval; line k*index_interval + 1 starts there when the
\* file has more bytes, and otherwise (the file ends with that newline) the
\* last checkpoint equals the file size and points at no line.
C4_Checkpoints ==
    Indexed =>
        LET data == fs[ret.path]
            offs == ret.index.line_offsets
        IN  /\ offs[1] = 0
            /\ Len(offs) = (Cardinality(Newlines(data)) \div INDEX_INTERVAL) + 1
            /\ \A k \in 1..(Len(offs) - 1) : offs[k] < offs[k + 1]
            /\ \A k \in 0..(Len(offs) - 1) :
                  /\ LineStartUnit(data, k * INDEX_INTERVAL + 1) # 0
                  /\ offs[k + 1] =
                        ByteOffset(data, LineStartUnit(data, k * INDEX_INTERVAL + 1))
                  /\ \/ LineExists(data, k * INDEX_INTERVAL + 1)
                     \/ /\ k = Len(offs) - 1
                        /\ offs[k + 1] = ret.index.file_size
                        /\ (k > 0 => data[Len(data)] = NL)

\* C4 witness: a file whose last checkpoint is its size, after two others
C4_Witness ==
    /\ Indexed
    /\ Len(ret.index.line_offsets) = 3
    /\ ret.index.line_offsets[3] = ret.index.file_size
    /\ ret.index.line_offsets[2] > INDEX_INTERVAL

\* C5: total_lines is the number of newline bytes, plus one exactly when
\* bytes follow the last newline (or the file has bytes and no newline).
C5_TotalLines ==
    Indexed =>
        LET data == fs[ret.path]
        IN  ret.index.total_lines =
                Cardinality(Newlines(data))
                + (IF data # <<>> /\ data[Len(data)] # NL THEN 1 ELSE 0)

\* C5 witness: an unterminated last line after terminated ones
C5_Witness ==
    /\ Indexed
    /\ Cardinality(Newlines(fs[ret.path])) >= 2
    /\ fs[ret.path][Len(fs[ret.path])] # NL
    /\ ret.index.total_lines = Cardinality(Newlines(fs[ret.path])) + 1

-----------------------------------------------------------------------------
(* Claims about the line reader and the session, checked under Spec *)

\* the text of line n of a file, read off its newline bytes
TrueLine(data, n) ==
    LET from == LineStartUnit(data, n)
        nls == {k \in Newlines(data) : k >= from}
        to == IF nls = {} THEN Len(data)
              ELSE (CHOOSE k \in nls : \A o \in nls : k <= o) - 1
    IN  SubSeq(data, from, to)

\* load_chunk ran on an open file
Loaded == ret.op = "load_chunk" /\ line_reader.some /\ ~poisoned
LoadedTotal == line_reader.val.index.total_lines

\* C1: read_range(a, b) with 1 <= a <= b <= total_lines, in any state earlier
\* reads have left the reader in, returns exactly b - a + 1 entries with the
\* line numbers a, a+1, ..., b in this order.
C1_ReadRangeExact ==
    (Loaded /\ 1 <= ret.start_line /\ ret.start_line <= ret.end_line
            /\ ret.end_line <= LoadedTotal) =>
        /\ ret.result.ok
        /\ Len(ret.result.chunk.entries) = ret.end_line - ret.start_line + 1
        /\ \A i \in 1..Len(ret.result.chunk.entries) :
              ret.result.chunk.entries[i].line_number = ret.start_line + i - 1

\* C2: two consecutive read_range(a, b) calls on the same reader return the
\* same entries.
C2_Idempotent ==
    (Loaded /\ ret.repeated.some) => ret.result = ret.repeated.val

\* the arguments of the last load_chunk lie outside the file, or cross after
\* clamping
OutOfRange ==
    \/ ret.start_line > LoadedTotal
    \/ Max(ret.start_line, 1) > Min(ret.end_line, LoadedTotal)

\* C3: read_range with start_line > total_lines, or with start > end after
\* clamping, succeeds with a chunk that has no entries and start_line =
\* end_line, reads nothing and inserts nothing into the cache.
C3_OutOfRangeEmpty ==
    (Loaded /\ OutOfRange) =>
        /\ ret.result.ok
        /\ ret.result.chunk.entries = <<>>
        /\ ret.result.chunk.start_line = ret.result.chunk.end_line
        /\ ret.inserts = <<>>
        /\ ret.io = "none"

\* C3 witness: a start beyond the end of a file that has lines, on a reader
\* that holds cached chunks
C3_Witness ==
    /\ Loaded /\ LoadedTotal >= 1
    /\ ret.start_line > LoadedTotal /\ ret.end_line > LoadedTotal
    /\ DOMAIN line_reader.val.cache # {}
    /\ ret.result.ok /\ ret.result.chunk.entries = <<>>

\* C9: the cache never holds more than CACHE_SIZE chunks, and an insertion
\* that meets CACHE_SIZE chunks removes exactly one entry, one with the oldest
\* access_time, before it inserts (an insertion that meets fewer removes none).
C9_CacheBounded ==
    /\ line_reader.some =>
          Cardinality(DOMAIN line_reader.val.cache) <= CACHE_SIZE
    /\ Loaded =>
          \A i \in 1..Len(ret.inserts) :
             LET ins == ret.inserts[i]
             IN  IF Cardinality(DOMAIN ins.met) >= CACHE_SIZE
                 THEN /\ ins.removed.some
                      /\ ins.removed.val \in DOMAIN ins.met
                      /\ \A k \in DOMAIN ins.met :
                            ins.met[ins.removed.val].access_time
                               <= ins.met[k].access_time
                      /\ ins.left =
                            (DOMAIN ins.met \ {ins.removed.val}) \cup {ins.key}
                 ELSE /\ ~ins.removed.some
                      /\ ins.left = DOMAIN ins.met \cup {ins.key}

\* C9 witness: an insertion met a full cache and removed a chunk other than
\* the one it inserted
C9_Witness ==
    /\ Loaded
    /\ \E i \in 1..Len(ret.inserts) :
          /\ Cardinality(DOMAIN ret.inserts[i].met) = CACHE_SIZE
          /\ ret.inserts[i].removed.some
          /\ ret.inserts[i].removed.val # ret.inserts[i].key

Opened == ret.op = "open_log_file" /\ ret.result.ok

\* C10: a successful open(path) returns the index of that file and the parsed
\* entries of lines 1..min(PREVIEW_LINES, total_lines) in order, and installs
\* that file, that index and a new reader of them; get_index returns the
\* installed index (an open succeeds only on a mutex that is not poisoned;
\* get_index is looked at while it stays so).
C10_OpenInstalls ==
    /\ Opened =>
          LET data == fs[ret.path]
              index == ret.result.index
              n == Min(PREVIEW_LINES, index.total_lines)
          IN  /\ index.file_path = ret.path
              /\ index.file_size = ByteLen(data)
              /\ index.total_lines =
                    Cardinality(Newlines(data))
                    + (IF data # <<>> /\ data[Len(data)] # NL THEN 1 ELSE 0)
              /\ ret.result.preview =
                    [k \in 1..n |-> parse_line(k, TrueLine(data, k))]
              /\ current_file = Some(ret.path)
              /\ current_index = Some(index)
              /\ line_reader.some
              /\ line_reader.val.path = ret.path
              /\ line_reader.val.index = index
              /\ \A k \in DOMAIN line_reader.val.cache :
                    line_reader.val.cache[k].entries = ret.result.preview
    /\ (ret.op = "get_file_index" /\ ~poisoned) =>
          ret.result = [ok |-> TRUE, index |-> current_index]

\* C10 witness: a reopen of another file, whose preview is one parsed line
C10_Witness ==
    /\ Opened
    /\ ret.path = OtherPath
    /\ Len(ret.result.preview) = PREVIEW_LINES
    /\ ret.result.index.total_lines > PREVIEW_LINES
    /\ now > 1

-----------------------------------------------------------------------------
(* Claims about the search engine, checked under SpecSearch *)

SearchedFile == ret.op = "search_logs"
SearchedPage == ret.op = "search_next"
SearchTotal == current_index.val.total_lines

\* the range search_in_file resolves its options to
ResolvedStart == IF ret.options.start_line.some
                 THEN ret.options.start_line.val ELSE 1
ResolvedEnd == IF ret.options.end_line.some
               THEN ret.options.end_line.val ELSE SearchTotal

\* search_in_string over the lines s..e of the file, in line order
MatchesOfLines(options, data, s, e) ==
    Concat([k \in 1..(e - s + 1) |->
               search_in_string(SearchEngine_new(options).engine,
                                TrueLine(data, s + k - 1), s + k - 1)])

\* C6: the result list of search_next_page has at most max_results entries.
C6_AtMostMaxResults ==
    (SearchedPage /\ ret.from_line >= 1 /\ ret.result.ok) =>
        Len(ret.result.results) <= ret.max_results

\* C7: search_next_page applies the pattern to no line beyond
\* from_line + PAGE_WINDOW nor beyond total_lines (by the number the loop
\* gives the line and by its place in the file), and every result has its
\* line_number in [from_line, min(from_line + PAGE_WINDOW, total_lines)].
C7_PageWindow ==
    SearchedPage =>
        /\ \A i \in 1..Len(ret.result.scanned) :
              LET x == ret.result.scanned[i]
              IN  /\ x.line_number <= ret.from_line + PAGE_WINDOW
                  /\ x.line_number <= SearchTotal
                  /\ x.actual <= ret.from_line + PAGE_WINDOW
                  /\ x.actual <= SearchTotal
        /\ ret.result.ok =>
              \A i \in 1..Len(ret.result.results) :
                 /\ ret.result.results[i].line_number >= ret.from_line
                 /\ ret.result.results[i].line_number
                       <= Min(ret.from_line + PAGE_WINDOW, SearchTotal)

\* C7 witness: a page that scanned up to the end of its window in a file
\* that has lines beyond it, and found a match on the window's last line
C7_Witness ==
    /\ SearchedPage /\ ret.from_line >= 1 /\ ret.result.ok
    /\ SearchTotal > ret.from_line + PAGE_WINDOW
    /\ Len(ret.result.scanned) = PAGE_WINDOW + 1
    /\ \E i \in 1..Len(ret.result.results) :
          ret.result.results[i].line_number = ret.from_line + PAGE_WINDOW

\* the range of the last search_in_file lies in the file
RangeInFile ==
    /\ SearchedFile
    /\ 1 <= ResolvedStart /\ ResolvedStart <= ResolvedEnd
    /\ ResolvedEnd <= SearchTotal

\* C8: for 1 <= s <= e <= total_lines (s defaulting to 1, e to total_lines)
\* search_in_file returns the matches of search_in_string on the lines
\* s..e of the file, in line order, each with the number of its line.
C8_SearchInFileExact ==
    RangeInFile =>
        /\ ret.result.ok
        /\ ret.result.results =
              MatchesOfLines(ret.options, fs[current_file.val],
                             ResolvedStart, ResolvedEnd)

\* every line of the searched range is UTF-8
RangeIsUtf8 ==
    \A n \in ResolvedStart..ResolvedEnd :
        IsUtf8(TrueLine(fs[current_file.val], n))

\* what search_in_file does keep of C8: on a range in the file, it returns
\* the matches of the lines s..e when all of them are UTF-8, and an error,
\* with no results, when one of them is not.
C8_Utf8RangeExact ==
    RangeInFile =>
        IF RangeIsUtf8
        THEN /\ ret.result.ok
             /\ ret.result.results =
                   MatchesOfLines(ret.options, fs[current_file.val],
                                  ResolvedStart, ResolvedEnd)
        ELSE ~ret.result.ok

\* C8 witness: a search from a checkpoint's last line up to a later line,
\* with lines before and after the range that match too
C8_Witness ==
    /\ SearchedFile /\ ret.result.ok
    /\ ResolvedStart = INDEX_INTERVAL
    /\ ResolvedEnd = INDEX_INTERVAL + 1 /\ ResolvedEnd < SearchTotal
    /\ Len(ret.result.results) >= 3
    /\ MatchesOfLines(ret.options, fs[current_file.val], 1, SearchTotal)
          # ret.result.results

-----------------------------------------------------------------------------
(* The session commands without an open file *)

SessionUnchanged == UNCHANGED <<fs, current_file, current_index, line_reader>>

\* a step of a command that needs a file, taken with no file open, fails
\* with the no-file-open error and leaves the session alone; get_file_index
\* then returns None
NoFileStep ==
    ~current_file.some =>
        /\ ret'.op \in {"load_chunk", "search_logs", "search_next"} =>
               ret'.result = Err("No file opened") /\ SessionUnchanged
        /\ ret'.op = "get_file_index" =>
               /\ ret'.result = [ok |-> TRUE, index |-> None]
               /\ SessionUnchanged

\* get_file_index on an open file returns the stored index, and the stored
\* index is the one built by the last successful open: only a successful
\* open (which stores the index it built for its path) and a close (which
\* drops it) change it
IndexStep ==
    /\ (current_file.some /\ ret'.op = "get_file_index") =>
           /\ current_index.some
           /\ ret'.result = [ok |-> TRUE, index |-> current_index]
           /\ SessionUnchanged
    /\ (ret'.op = "open_log_file" /\ ret'.result.ok) =>
           /\ current_file' = Some(ret'.path)
           /\ current_index' = Some(index_file(ret'.path))
    /\ current_index' # current_index =>
           \/ ret'.op = "open_log_file" /\ ret'.result.ok
           \/ ret'.op = "close_file" /\ current_index' = None

-----------------------------------------------------------------------------
(* close *)

Closed == ~current_file.some /\ ~current_index.some /\ ~line_reader.some

\* a close step succeeds and ends with file, index and reader absent,
\* whatever the state it starts from; from a state that is already closed it
\* therefore changes nothing, so close after close equals close
CloseStep ==
    ret'.op = "close_file" =>
        /\ ret'.result = [ok |-> TRUE]
        /\ current_file' = None /\ current_index' = None
        /\ line_reader' = None
        /\ UNCHANGED <<fs, now>>
        /\ Closed => SessionUnchanged

-----------------------------------------------------------------------------
(* parse_line *)

Parsed == ret.op = "parse_line"

\* the test of the claim, on the line as it is given
StartsAsContinuation(content) ==
    content = <<>> \/ content[1] = " " \/ content[1] = ">"

\* the first rule, in the order of parse_line, that the trimmed line matches
\* (5: none, the raw fallback)
FirstRule(t) ==
    LET matches == <<is_continuation(t), MatchStandard(t).some,
                     MatchSimple(t).some, MatchHeader(t), TRUE>>
    IN  CHOOSE i \in 1..5 : matches[i] /\ \A j \in 1..(i - 1) : ~matches[j]

\* the rule an entry shows it was built by
RuleOf(e) ==
    IF e.is_continuation THEN 1
    ELSE IF e.timestamp.some /\ e.frame.some THEN 2
    ELSE IF ~e.timestamp.some /\ e.category.some THEN 3
    ELSE IF e.timestamp.some THEN 4
    ELSE 5

\* C13: parse_line returns an entry for every line; the entry is the one of
\* the first rule that matches in the order continuation, standard, simple,
\* header, raw; and a line that starts with a space or '>' or is empty is
\* returned as a continuation entry (level Unknown, no timestamp, frame or
\* category, the trimmed line as raw text and message).
C13_FirstMatchWins ==
    Parsed =>
        LET e == ret.entry
            t == trim_end(ret.content)
        IN  /\ DOMAIN e = {"line_number", "raw", "timestamp", "frame",
                           "category", "level", "message", "is_continuation"}
            /\ e.line_number = ret.line_number
            /\ e.raw = t
            /\ e.level \in LevelNames \cup {"Unknown"}
            /\ RuleOf(e) = FirstRule(t)
            /\ StartsAsContinuation(ret.content) =>
                   e = [line_number |-> ret.line_number, raw |-> t,
                        timestamp |-> None, frame |-> None, category |-> None,
                        level |-> "Unknown", message |-> Some(t),
                        is_continuation |-> TRUE]

\* a line in simple format behind a '>' has been parsed as a continuation
C13_Witness ==
    /\ Parsed
    /\ ret.content # <<>> /\ ret.content[1] = ">"
    /\ MatchSimple(Tail(ret.content)).some
    /\ ret.entry.is_continuation
    /\ ret.entry.level = "Unknown"

-----------------------------------------------------------------------------
(* The statistics of the index *)

\* the newline-terminated lines of a file
TerminatedLines(data) ==
    {TrueLine(data, n) : n \in 1..Cardinality(Newlines(data))}

\* a line of the form <category>: <level>: <message> with a recognised level
CategoryLevelLine(l) ==
    /\ Len(l) >= 7
    /\ l[1] \in WordUnits /\ l[2] = ":" /\ l[3] = " "
    /\ l[4] \in LevelNames /\ l[5] = ":" /\ l[6] = " "

\* the categories of such lines are all counted
CategoriesOfLinesCounted ==
    Indexed =>
        LET ls == TerminatedLines(fs[ret.path])
        IN  (\A l \in ls : CategoryLevelLine(l)) =>
                \A l \in ls : l[1] \in DOMAIN ret.index.categories

\* C14: after indexing a file whose newline-terminated lines all have the
\* form <category>: <level>: <message>, categories has every category of
\* these lines and level_counts has every recognised level of these lines.
C14_CategoriesAndLevels ==
    Indexed =>
        LET ls == TerminatedLines(fs[ret.path])
        IN  (\A l \in ls : CategoryLevelLine(l)) =>
                \A l \in ls :
                    /\ l[1] \in DOMAIN ret.index.categories
                    /\ l[4] \in DOMAIN ret.index.level_counts

-----------------------------------------------------------------------------
(* search_in_string *)

\* C15: every result of search_in_string has as start the number of
\* characters of the text before its match and as end the number of
\* characters up to the end of its match.
C15_CharPositions ==
    ret.op = "search_in_string" =>
        \A i \in 1..Len(ret.results) :
            LET r == ret.results[i]
            IN  \E k \in 1..(Len(ret.text) + 1) :
                   /\ k + Len(r.matched_text) - 1 <= Len(ret.text)
                   /\ SubSeq(ret.text, k, k + Len(r.matched_text) - 1)
                         = r.matched_text
                   /\ r.start = CharLen(SubSeq(ret.text, 1, k - 1))
                   /\ r.end = r.start + CharLen(r.matched_text)

-----------------------------------------------------------------------------
(* The checkpoint of read_range *)

\* load_chunk ran on an open file and read_range went to the file
CacheMiss == Loaded /\ ret.io = "seek+read"

\* C16: on a cache miss with start_line in [1, total_lines], the first line
\* number of the checkpoint start_line / INDEX_INTERVAL is at most
\* start_line, and line start_line is among the entries returned.
C16_CheckpointBoundsStart ==
    (CacheMiss /\ 1 <= ret.start_line /\ ret.start_line <= LoadedTotal) =>
        /\ (ret.start_line \div INDEX_INTERVAL) * INDEX_INTERVAL + 1
              <= ret.start_line
        /\ ret.result.ok
        /\ \E i \in 1..Len(ret.result.chunk.entries) :
              ret.result.chunk.entries[i].line_number = ret.start_line

-----------------------------------------------------------------------------
(* The checkpoint of the searches and the checkpoint of read_range *)

\* the line a search was asked to start at
SearchStart == IF SearchedFile THEN ResolvedStart ELSE ret.from_line

\* C17: for the start line n >= 1 of a search, the checkpoint the search
\* selects and the checkpoint read_range selects for start_line = n are the
\* same: same index, same seek offset, same first line number.
C17_SameCheckpoint ==
    ((SearchedFile \/ SearchedPage) /\ SearchStart >= 1) =>
        SeekOf(current_index.val, CheckpointOf(SearchStart))
            = SeekOf(current_index.val, ChunkIndexOf(Max(SearchStart, 1)))

-----------------------------------------------------------------------------
(* The cache of the reader *)

\* the entries cached under key k are numbered within checkpoint k
ChunkAligned(k, entries) ==
    \A i \in 1..Len(entries) :
        /\ entries[i].line_number >= k * INDEX_INTERVAL + 1
        /\ entries[i].line_number <= (k + 1) * INDEX_INTERVAL

\* every cached entry is the parse of the line of the file it is numbered as
ChunkTrue(data, entries) ==
    \A i \in 1..Len(entries) :
        /\ LineExists(data, entries[i].line_number)
        /\ entries[i] = parse_line(entries[i].line_number,
                                   TrueLine(data, entries[i].line_number))

\* C18: in every reader state, the entries cached under key k have line
\* numbers in [k*INDEX_INTERVAL + 1, (k+1)*INDEX_INTERVAL] and hold the text
\* of the line of the file with that number.
C18_CacheAligned ==
    line_reader.some =>
        \A k \in DOMAIN line_reader.val.cache :
            /\ ChunkAligned(k, line_reader.val.cache[k].entries)
            /\ ChunkTrue(fs[line_reader.val.path],
                         line_reader.val.cache[k].entries)

\* numbering alone: every cached entry lies in the checkpoint of its key
CacheNumbersAligned ==
    line_reader.some =>
        \A k \in DOMAIN line_reader.val.cache :
            ChunkAligned(k, line_reader.val.cache[k].entries)

-----------------------------------------------------------------------------
(* The cache probe *)

\* the cached entries of the chunk of start_line that lie in the clamped
\* range start_line .. end_line, in a reader r
ProbeWindow(r, start_line, end_line) ==
    LET s == Max(start_line, 1)
        e == Min(end_line, r.index.total_lines)
        k == ChunkIndexOf(s)
    IN  IF s <= e /\ k \in DOMAIN r.cache
        THEN SelectSeq(r.cache[k].entries,
                       LAMBDA x : x.line_number >= s /\ x.line_number <= e)
        ELSE <<>>

\* a load_chunk step on an open file whose probe finds entries
HitStep ==
    /\ line_reader.some /\ ~poisoned
    /\ ret'.op = "load_chunk"
    /\ ProbeWindow(line_reader.val, ret'.start_line, ret'.end_line) # <<>>

\* C19: a read_range that its cache probe answers returns the cached
\* entries of the window, does no seek and no read, and leaves the reader
\* as it was: same keys, same entries, same access times (the clock is not
\* even read).
C19_HitLeavesCache ==
    [][HitStep =>
          /\ ret'.io = "none"
          /\ ret'.inserts = <<>>
          /\ ret'.result.ok
          /\ ret'.result.chunk.entries =
                 ProbeWindow(line_reader.val, ret'.start_line, ret'.end_line)
          /\ line_reader' = line_reader
          /\ now' = now]_vars

\* a hit on the oldest chunk of a full cache: the chunk hit is still the
\* one the next insertion evicts
C19_Witness ==
    /\ Loaded
    /\ ret.io = "none" /\ ret.result.ok /\ ret.result.chunk.entries # <<>>
    /\ Cardinality(DOMAIN line_reader.val.cache) = CACHE_SIZE
    /\ OldestKeys(line_reader.val.cache)
          = {ChunkIndexOf(ret.result.chunk.start_line)}

-----------------------------------------------------------------------------
(* The bounds of a returned chunk *)

\* C20: every chunk read_range returns on a file that has lines reports
\* 1 <= start_line <= end_line <= total_lines, whatever range was asked for.
C20_ChunkBoundsClamped ==
    (Loaded /\ LoadedTotal >= 1 /\ ret.result.ok) =>
        /\ 1 <= ret.result.chunk.start_line
        /\ ret.result.chunk.start_line <= ret.result.chunk.end_line
        /\ ret.result.chunk.end_line <= LoadedTotal

\* the same for the requests that reach into the file after clamping
ChunkBoundsOfRangeInFile ==
    (Loaded /\ LoadedTotal >= 1 /\ ret.result.ok /\ ~OutOfRange) =>
        /\ 1 <= ret.result.chunk.start_line
        /\ ret.result.chunk.start_line <= ret.result.chunk.end_line
        /\ ret.result.chunk.end_line <= LoadedTotal

-----------------------------------------------------------------------------
(* The lines a page scans *)

\* C21: a call of search_next_page with from_line >= 1 applies the pattern
\* to at most PAGE_WINDOW lines, the first of them being line from_line.
C21_ScansAtMostWindow ==
    (SearchedPage /\ ret.from_line >= 1) =>
        /\ Len(ret.result.scanned) <= PAGE_WINDOW
        /\ ret.result.scanned # <<>> =>
              /\ ret.result.scanned[1].line_number = ret.from_line
              /\ ret.result.scanned[1].actual = ret.from_line

\* what holds instead: at most PAGE_WINDOW + 1 lines, from_line first
ScansAtMostWindowPlusOne ==
    (SearchedPage /\ ret.from_line >= 1) =>
        /\ Len(ret.result.scanned) <= PAGE_WINDOW + 1
        /\ ret.result.scanned # <<>> =>
              /\ ret.result.scanned[1].line_number = ret.from_line
              /\ ret.result.scanned[1].actual = ret.from_line

-----------------------------------------------------------------------------
(* Paging *)

\* search_in_file over the whole file, with the options of the paging
WholeFileSearch ==
    search_in_file(SearchEngine_new(ret.options).engine, current_file.val,
                   current_index.val, ret.options, TRUE)

\* the paging has ended on an empty page
PagingDone == ret.op = "paging" /\ ret.done /\ ret.ok

\* C22: when the paging ends on an empty page, the pages put together are
\* the results of search_in_file over the whole file, in order.
C22_PagesEqualSearch ==
    (PagingDone /\ WholeFileSearch.ok) =>
        ret.pages = WholeFileSearch.results

\* the pages never hold a result twice nor out of order, and hold no result
\* that search_in_file does not return
PagesArePrefix ==
    (ret.op = "paging" /\ ret.ok /\ WholeFileSearch.ok) =>
        /\ Len(ret.pages) <= Len(WholeFileSearch.results)
        /\ ret.pages = SubSeq(WholeFileSearch.results, 1, Len(ret.pages))

-----------------------------------------------------------------------------
(* Concurrent commands *)

\* task t is inside the seek-and-parse path of read_range
Reading(t) == tasks[t].pc \in {"open_preview", "load_reading"}

\* the file handle it reads on
HandleOf(t) ==
    IF tasks[t].pc = "open_preview" THEN tasks[t].reader.handle
    ELSE tasks[t].handle

\* the tasks reading on the handle of the session's reader
SessionReaders ==
    {t \in Tasks : /\ Reading(t) /\ line_reader.some
                   /\ HandleOf(t) = line_reader.val.handle}

\* C23: at any moment at most one task is inside the seek-and-parse path of
\* read_range on the session reader's file handle; that task holds the
\* session mutex; and no two tasks read on the same handle at all (a reader
\* that an open is still previewing is not the session's).
C23_OneReaderAtATime ==
    /\ Cardinality(SessionReaders) <= 1
    /\ \A t \in SessionReaders : mutex = Some(t)
    /\ \A t1, t2 \in Tasks :
          (t1 # t2 /\ Reading(t1) /\ Reading(t2)) => HandleOf(t1) # HandleOf(t2)

\* one task reads the session's reader under the lock while another is
\* previewing a reader of its own
C23_Witness ==
    \E t1, t2 \in Tasks :
        /\ t1 # t2
        /\ tasks[t1].pc = "load_reading" /\ t1 \in SessionReaders
        /\ tasks[t2].pc = "open_preview"

-----------------------------------------------------------------------------
(* A failed open *)

\* the step is an open that returned an error
FailedOpenStep == ret'.op = "open_log_file" /\ ~ret'.result.ok

\* C24: an open that fails (no such path, or the index, the reader or the
\* preview fails) returns an error and leaves current_file, current_index
\* and line_reader, cache included, exactly as they were, the files and the
\* state of the mutex too: what was open before stays open and usable.
C24_FailedOpenLeavesSession ==
    [][FailedOpenStep =>
          UNCHANGED <<fs, current_file, current_index, line_reader,
                      poisoned>>]_vars

\* with a file open and lines of it in the cache, an open of another path
\* has just failed, on a missing file or on a preview that cannot be read
C24_Witness ==
    /\ ret.op = "open_log_file" /\ ~ret.result.ok
    /\ ret.result # PoisonError
    /\ current_file.some /\ current_file.val # ret.path
    /\ current_index.some
    /\ line_reader.some /\ DOMAIN line_reader.val.cache # {}
    /\ ~poisoned

-----------------------------------------------------------------------------
(* The three session fields under concurrent opens and closes *)

\* every entry of the reader's cache is the parse of some line of data
CacheOfFile(cache, data) ==
    \A k \in DOMAIN cache :
        \A i \in 1..Len(cache[k].entries) :
            \E n \in 1..Len(data) :
                /\ LineExists(data, n)
                /\ cache[k].entries[i] =
                       parse_line(cache[k].entries[i].line_number,
                                  TrueLine(data, n))

\* the three fields are those one open of path left
FromOneOpen(path) ==
    /\ current_file = Some(path)
    /\ current_index = Some(index_file(path))
    /\ line_reader.some
    /\ line_reader.val.path = path
    /\ line_reader.val.index = current_index.val
    /\ CacheOfFile(line_reader.val.cache, fs[path])

\* C25: in every state reached by concurrent commands, current_file,
\* current_index and line_reader are all absent, or all present and from
\* the same open: the path, the index built for it, and a reader made from
\* that index whose cache holds only lines of that file.
C25_SessionFromOneOpen ==
    \/ Closed
    \/ \E path \in DOMAIN fs : FromOneOpen(path)

\* a file is open, with lines of it cached, while an open of another file
\* by another task has read its preview and waits for the lock
C25_Witness ==
    /\ \E path \in DOMAIN fs : FromOneOpen(path)
    /\ DOMAIN line_reader.val.cache # {}
    /\ \E t \in Tasks :
          /\ tasks[t].pc = "open_install"
          /\ tasks[t].path # current_file.val
          /\ line_reader.val.handle[1] # t

-----------------------------------------------------------------------------
(* The line numbers of the results of search_in_file *)

\* text m occurs in line l
OccursIn(m, l) ==
    \E k \in 1..(Len(l) + 1) :
        k + Len(m) - 1 <= Len(l) /\ SubSeq(l, k, k + Len(m) - 1) = m

\* C26: every result of search_in_file, whatever start_line >= 1 and
\* end_line were given, has a line number n with 1 <= n <= total_lines,
\* and its matched_text occurs in line n of the file.
C26_ResultsAreLinesOfFile ==
    (SearchedFile /\ ResolvedStart >= 1 /\ ret.result.ok) =>
        \A i \in 1..Len(ret.result.results) :
            LET r == ret.result.results[i]
            IN  /\ 1 <= r.line_number
                /\ r.line_number <= SearchTotal
                /\ LineExists(fs[current_file.val], r.line_number)
                /\ OccursIn(r.matched_text,
                            TrueLine(fs[current_file.val], r.line_number))

\* the same for the searches that start at or below the last checkpoint of
\* the index
ResultsAreLinesOfFileWithinIndex ==
    (/\ SearchedFile /\ ResolvedStart >= 1 /\ ret.result.ok
     /\ CheckpointOf(ResolvedStart) < Len(current_index.val.line_offsets)) =>
        \A i \in 1..Len(ret.result.results) :
            LET r == ret.result.results[i]
            IN  /\ 1 <= r.line_number
                /\ r.line_number <= SearchTotal
                /\ LineExists(fs[current_file.val], r.line_number)
                /\ OccursIn(r.matched_text,
                            TrueLine(fs[current_file.val], r.line_number))

-----------------------------------------------------------------------------
(* A search from line 0 *)

\* the search was asked to start at line 0
SearchedFromZero ==
    \/ SearchedFile /\ ResolvedStart = 0
    \/ SearchedPage /\ ret.from_line = 0

\* what the same call returns when asked to start at line 1
SameSearchFromOne ==
    IF SearchedFile
    THEN search_in_file(SearchEngine_new(ret.options).engine,
                        current_file.val, current_index.val,
                        [ret.options EXCEPT !.start_line = Some(1)], TRUE)
    ELSE search_next_page(SearchEngine_new(ret.options).engine,
                          current_file.val, current_index.val,
                          1, ret.max_results, TRUE)

\* C27: a search with start_line = 0, or a page with from_line = 0, does
\* not underflow in start_line - 1: the call returns normally, with what a
\* scan starting at line 1 returns.
C27_ZeroStartsAtLineOne ==
    SearchedFromZero =>
        /\ "panic" \notin DOMAIN ret.result
        /\ ret.result.ok = SameSearchFromOne.ok
        /\ ret.result.ok => ret.result.results = SameSearchFromOne.results

\* what the call does instead: it panics, or it returns no result at all
ZeroStartPanicsOrFindsNothing ==
    SearchedFromZero =>
        \/ ret.result = Panic
        \/ ret.result = [ok |-> TRUE, results |-> <<>>, scanned |-> <<>>]

-----------------------------------------------------------------------------
(* The counts of the index, line by line *)

\* the lines among ns that are UTF-8 and for which extract_category yields c
LinesOfCategory(data, ns, c) ==
    {n \in ns : /\ IsUtf8(TrueLine(data, n))
                /\ extract_category(TrueLine(data, n)) = Some(c)}

\* the lines among ns that are UTF-8 and for which extract_level yields a
\* level displayed as l
LinesOfLevel(data, ns, l) ==
    {n \in ns : /\ IsUtf8(TrueLine(data, n))
                /\ extract_level(TrueLine(data, n)).some
                /\ display_name(extract_level(TrueLine(data, n)).val) = l}

\* categories and level_counts count, for each key, the lines ns
CountsLines(index, data, ns) ==
    /\ \A n \in ns :
          IsUtf8(TrueLine(data, n)) =>
             /\ extract_category(TrueLine(data, n)).some =>
                   extract_category(TrueLine(data, n)).val
                      \in DOMAIN index.categories
             /\ extract_level(TrueLine(data, n)).some =>
                   display_name(extract_level(TrueLine(data, n)).val)
                      \in DOMAIN index.level_counts
    /\ \A c \in DOMAIN index.categories :
          index.categories[c] = Cardinality(LinesOfCategory(data, ns, c))
    /\ \A l \in DOMAIN index.level_counts :
          index.level_counts[l] = Cardinality(LinesOfLevel(data, ns, l))

\* C28: for every file, categories[c] is the number of UTF-8 lines for
\* which extract_category yields c and level_counts[l] the number for which
\* extract_level yields l, over all the lines total_lines counts, a last
\* line without a newline included.
C28_CountsEveryLine ==
    Indexed =>
        CountsLines(ret.index, fs[ret.path], 1..ret.index.total_lines)

\* the counts are those of the lines that end in a newline
CountsTerminatedLines ==
    Indexed =>
        CountsLines(ret.index, fs[ret.path],
                    1..Cardinality(Newlines(fs[ret.path])))

=============================================================================
